---------------------------- MODULE Spec2Model ----------------------------
(***************************************************************************)
(* A model of midi_converter_script.py: the MidiConverter class.           *)
(*                                                                         *)
(* Representation.                                                         *)
(*  - A note token, a chord name and a section name are strings.           *)
(*  - A track (mido.MidiTrack) is the sequence of its messages; a message  *)
(*    is a record whose field "time" is the delta-time in ticks.           *)
(*  - A beat count b of the source (0.5, 1.0, 2.0, 4.0, 4, 32) is carried  *)
(*    as the integer 2*b, its number of half beats: every beat count of    *)
(*    the source is a multiple of 0.5.                                     *)
(***************************************************************************)
EXTENDS Integers, Sequences, FiniteSets, TLC

VARIABLES
    chord_track,    \* generate_midi: chord_track, or the track a caller passes
    melody_track,   \* generate_midi: melody_track
    bass_track,     \* generate_midi: bass_track
    lead_track,     \* generate_midi: lead_track
    mid_tracks,     \* self.mid.tracks
    structure,      \* self.structure
    pc,             \* position in generate_midi ("idle": no run of it)
    sec,            \* index (from 1) of the next element of self.structure
    current_time,   \* generate_midi's local current_time
    starts,         \* elapsed ticks of chord_track at the start of each section
    call            \* the last call made: its arguments and what it saw

vars == <<chord_track, melody_track, bass_track, lead_track, mid_tracks,
          structure, pc, sec, current_time, starts, call>>

----------------------------------------------------------------------------
(* Bounds of the model. *)

\* The number of calls a caller makes on the rendering operations.
MaxOps == 2

\* Bar counts a caller passes to add_chord_progression: 0..MaxBars.
MaxBars == 3

----------------------------------------------------------------------------
(* __init__ *)

tempo == 85

ticks_per_beat == 480

notes ==
    ("C" :> 60) @@ ("C#" :> 61) @@ ("Db" :> 61) @@ ("D" :> 62) @@
    ("D#" :> 63) @@ ("Eb" :> 63) @@ ("E" :> 64) @@ ("F" :> 65) @@
    ("F#" :> 66) @@ ("Gb" :> 66) @@ ("G" :> 67) @@ ("G#" :> 68) @@
    ("Ab" :> 68) @@ ("A" :> 69) @@ ("A#" :> 70) @@ ("Bb" :> 70) @@
    ("B" :> 71)

chords ==
    ("Dm" :> <<62, 65, 69>>) @@
    ("Bb" :> <<70, 62, 65>>) @@
    ("F"  :> <<65, 69, 60>>) @@
    ("C"  :> <<60, 64, 67>>) @@
    ("Gm" :> <<67, 70, 62>>) @@
    ("A7" :> <<69, 61, 64, 67>>)

Structure ==
    << <<"intro", 8>>, <<"verse1", 16>>, <<"pre_chorus1", 8>>,
       <<"chorus1", 16>>, <<"verse2", 16>>, <<"pre_chorus2", 8>>,
       <<"chorus2", 16>>, <<"bridge", 12>>, <<"final_chorus", 24>>,
       <<"outro", 8>> >>

----------------------------------------------------------------------------
(* Python built-ins the code uses. *)

\* list * n
RECURSIVE Repeat(_, _)
Repeat(list, n) == IF n <= 0 THEN <<>> ELSE list \o Repeat(list, n - 1)

\* list[:n]
Slice(list, n) ==
    IF n >= 0
    THEN SubSeq(list, 1, IF n < Len(list) THEN n ELSE Len(list))
    ELSE SubSeq(list, 1, IF Len(list) + n > 0 THEN Len(list) + n ELSE 0)

\* str.isdigit() of one ASCII character
isdigit(c) == c \in {"0", "1", "2", "3", "4", "5", "6", "7", "8", "9"}

\* int() of one ASCII digit
int(c) ==
    CASE c = "0" -> 0 [] c = "1" -> 1 [] c = "2" -> 2 [] c = "3" -> 3
      [] c = "4" -> 4 [] c = "5" -> 5 [] c = "6" -> 6 [] c = "7" -> 7
      [] c = "8" -> 8 [] c = "9" -> 9

min(a, b) == IF a <= b THEN a ELSE b

max(a, b) == IF a >= b THEN a ELSE b

\* dict.get(key, default)
get(dict, key, default) == IF key \in DOMAIN dict THEN dict[key] ELSE default

----------------------------------------------------------------------------
(* beats_to_ticks: int(beats * self.ticks_per_beat), beats in half beats.  *)

beats_to_ticks_int_first(beats) == (beats \div 2) * ticks_per_beat

beats_to_ticks(beats) == (beats * ticks_per_beat) \div 2

----------------------------------------------------------------------------
(* Messages. *)

set_tempo(bpm) == [type |-> "set_tempo", tempo |-> bpm, time |-> 0]

program_change(channel, program) ==
    [type |-> "program_change", channel |-> channel, program |-> program,
     time |-> 0]

note_on(channel, note, velocity, time) ==
    [type |-> "note_on", channel |-> channel, note |-> note,
     velocity |-> velocity, time |-> time]

note_off(channel, note, time) ==
    [type |-> "note_off", channel |-> channel, note |-> note,
     velocity |-> 0, time |-> time]

(* add_tempo_change *)

add_tempo_change_forgotten(track) == track

add_tempo_change(track) == Append(track, set_tempo(tempo))

----------------------------------------------------------------------------
(* note_name_to_midi.  On strings of ASCII characters neither             *)
(* note_name[-1] (the length is at least 2 there) nor int() of a character *)
(* that isdigit() accepts raises, so the except arm is not entered.        *)

note_name_to_midi_no_clamp(note_name) ==
    IF note_name = "" \/ note_name = "rest" THEN 60
    ELSE IF Len(note_name) < 2 THEN get(notes, note_name, 60)
    ELSE LET last == SubSeq(note_name, Len(note_name), Len(note_name))
             note == IF isdigit(last)
                     THEN SubSeq(note_name, 1, Len(note_name) - 1)
                     ELSE note_name
             octave == IF isdigit(last) THEN int(last) ELSE 4
         IN  get(notes, note, 60) + (octave - 4) * 12

note_name_to_midi_octave_3(note_name) ==
    IF note_name = "" \/ note_name = "rest" THEN 60
    ELSE IF Len(note_name) < 2 THEN get(notes, note_name, 60)
    ELSE LET last == SubSeq(note_name, Len(note_name), Len(note_name))
             note == IF isdigit(last)
                     THEN SubSeq(note_name, 1, Len(note_name) - 1)
                     ELSE note_name
             octave == IF isdigit(last) THEN int(last) ELSE 4
         IN  max(0, min(127, get(notes, note, 60) + (octave - 3) * 12))

note_name_to_midi(note_name) ==
    IF note_name = "" \/ note_name = "rest" THEN 60
    ELSE IF Len(note_name) < 2 THEN get(notes, note_name, 60)
    ELSE LET last == SubSeq(note_name, Len(note_name), Len(note_name))
             note == IF isdigit(last)
                     THEN SubSeq(note_name, 1, Len(note_name) - 1)
                     ELSE note_name
             octave == IF isdigit(last) THEN int(last) ELSE 4
             base_note == get(notes, note, 60)
             midi_note == base_note + (octave - 4) * 12
         IN  max(0, min(127, midi_note))

----------------------------------------------------------------------------
(* add_chord_progression *)

beats_per_chord == 2 * 4

chord_sequence_no_extra_copy(chord_names, bars) ==
    Slice(Repeat(chord_names, bars \div Len(chord_names)), bars)

chord_sequence(chord_names, bars) ==
    Slice(Repeat(chord_names, bars \div Len(chord_names) + 1), bars)

\* The messages of one chord: the note_on loop, then the note_off loop.
chord_messages(chord_notes, velocity, current, hold_time) ==
    [k \in 1..Len(chord_notes) |->
        note_on(0, chord_notes[k], velocity, IF k = 1 THEN current ELSE 0)]
    \o
    [k \in 1..Len(chord_notes) |->
        note_off(0, chord_notes[k], IF k = 1 THEN hold_time ELSE 0)]

\* The for loop over chord_sequence, from its i-th element on.
RECURSIVE chord_loop(_, _, _, _, _)
chord_loop(track, sequence, i, velocity, current) ==
    IF i > Len(sequence) THEN track
    ELSE IF sequence[i] \in DOMAIN chords
         THEN chord_loop(
                  track \o chord_messages(chords[sequence[i]], velocity,
                                          current,
                                          beats_to_ticks(beats_per_chord)),
                  sequence, i + 1, velocity, 0)
         ELSE chord_loop(track, sequence, i + 1, velocity, current)

add_chord_progression(track, chord_names, bars, velocity, time_offset) ==
    chord_loop(track, chord_sequence(chord_names, bars), 1, velocity,
               time_offset)

----------------------------------------------------------------------------
(* add_melody *)

melody_note_messages_no_off(midi_note, velocity, current, duration) ==
    << note_on(1, midi_note, velocity, current) >>

melody_note_messages(midi_note, velocity, current, duration) ==
    << note_on(1, midi_note, velocity, current),
       note_off(1, midi_note, duration) >>

\* rhythm_pattern[i % len(rhythm_pattern)], i counted from 1 here.
rhythm_at(rhythm_pattern, i) ==
    rhythm_pattern[((i - 1) % Len(rhythm_pattern)) + 1]

\* The for loop over melody_notes, from its i-th element on.
RECURSIVE melody_loop(_, _, _, _, _, _)
melody_loop(track, melody_notes, rhythm_pattern, i, velocity, current) ==
    IF i > Len(melody_notes) THEN track
    ELSE IF melody_notes[i] = "rest"
         THEN melody_loop(track, melody_notes, rhythm_pattern, i + 1, velocity,
                  current + beats_to_ticks(rhythm_at(rhythm_pattern, i)))
         ELSE melody_loop(
                  track \o melody_note_messages(
                               note_name_to_midi(melody_notes[i]), velocity,
                               current,
                               beats_to_ticks(rhythm_at(rhythm_pattern, i))),
                  melody_notes, rhythm_pattern, i + 1, velocity, 0)

add_melody(track, melody_notes, rhythm_pattern, velocity, time_offset) ==
    melody_loop(track, melody_notes, rhythm_pattern, 1, velocity, time_offset)

----------------------------------------------------------------------------
(* add_bass_line *)

beats_per_note == 2 * 4

\* The for loop over bass_notes, from its i-th element on.
RECURSIVE bass_loop(_, _, _, _, _)
bass_loop(track, bass_notes, i, velocity, current) ==
    IF i > Len(bass_notes) THEN track
    ELSE bass_loop(
             track \o << note_on(2, note_name_to_midi(bass_notes[i]),
                                 velocity, current),
                         note_off(2, note_name_to_midi(bass_notes[i]),
                                  beats_to_ticks(beats_per_note)) >>,
             bass_notes, i + 1, velocity, 0)

add_bass_line(track, bass_notes, velocity, time_offset) ==
    bass_loop(track, bass_notes, 1, velocity, time_offset)

----------------------------------------------------------------------------
(* create_section *)

section_data ==
    ("intro" :>
        [chords   |-> Repeat(<<"Dm", "Bb", "F", "C">>, 2),
         melody   |-> Repeat(<<"D4", "F4", "G4", "F4", "D4", "C4", "D4",
                               "D4">>, 2),
         bass     |-> Repeat(<<"D2", "Bb1", "F1", "C2">>, 2),
         velocity |-> 60,
         rhythm   |-> <<1, 1, 1, 1, 1, 1, 2, 2>>]) @@
    ("verse1" :>
        [chords   |-> Repeat(<<"Dm", "Bb", "F", "C", "Dm", "Bb", "F",
                               "A7">>, 2),
         melody   |-> Repeat(<<"D4", "F4", "G4", "F4", "D4", "C4", "D4", "D4",
                               "F4", "G4", "A4", "G4", "F4", "D4", "F4",
                               "F4">>, 1),
         bass     |-> Repeat(<<"D2", "Bb1", "F1", "C2", "D2", "Bb1", "F1",
                               "A1">>, 2),
         velocity |-> 65,
         rhythm   |-> <<2, 1, 1, 2, 2, 1, 1, 4>>]) @@
    ("pre_chorus1" :>
        [chords   |-> <<"Bb", "C", "Dm", "Dm", "Bb", "C", "F", "A7">>,
         melody   |-> <<"Bb4", "A4", "G4", "F4", "G4", "A4", "Bb4", "C5",
                        "D5", "C5", "Bb4", "A4", "G4", "F4", "G4", "A4">>,
         bass     |-> <<"Bb1", "C2", "D2", "D2", "Bb1", "C2", "F1", "A1">>,
         velocity |-> 75,
         rhythm   |-> <<1, 1, 1, 1, 1, 1, 2, 2>>]) @@
    ("chorus1" :>
        [chords   |-> Repeat(<<"Dm", "Bb", "F", "C", "Gm", "Bb", "F",
                               "A7">>, 2),
         melody   |-> Repeat(<<"D5", "F5", "G5", "F5", "D5", "C5", "D5", "D5",
                               "Bb4", "C5", "D5", "F5", "G5", "A5", "F5",
                               "D5">>, 1),
         bass     |-> Repeat(<<"D2", "Bb1", "F1", "C2", "G1", "Bb1", "F1",
                               "A1">>, 2),
         velocity |-> 100,
         rhythm   |-> <<2, 2, 1, 1, 2, 2, 2, 2>>]) @@
    ("verse2" :>
        [chords   |-> Repeat(<<"Dm", "Bb", "F", "C", "Dm", "Bb", "F",
                               "A7">>, 2),
         melody   |-> Repeat(<<"D4", "F4", "G4", "F4", "D4", "C4", "D4", "D4",
                               "F4", "G4", "A4", "G4", "F4", "D4", "F4",
                               "F4">>, 1),
         bass     |-> Repeat(<<"D2", "Bb1", "F1", "C2", "D2", "Bb1", "F1",
                               "A1">>, 2),
         velocity |-> 70,
         rhythm   |-> <<2, 1, 1, 2, 2, 1, 1, 4>>]) @@
    ("pre_chorus2" :>
        [chords   |-> <<"Bb", "C", "Dm", "Dm", "Bb", "C", "F", "A7">>,
         melody   |-> <<"Bb4", "A4", "G4", "F4", "G4", "A4", "Bb4", "C5",
                        "D5", "C5", "Bb4", "A4", "G4", "F4", "G4", "A4">>,
         bass     |-> <<"Bb1", "C2", "D2", "D2", "Bb1", "C2", "F1", "A1">>,
         velocity |-> 85,
         rhythm   |-> <<1, 1, 1, 1, 1, 1, 2, 2>>]) @@
    ("chorus2" :>
        [chords   |-> Repeat(<<"Dm", "Bb", "F", "C", "Gm", "Bb", "F",
                               "A7">>, 2),
         melody   |-> Repeat(<<"D5", "F5", "G5", "F5", "D5", "C5", "D5", "D5",
                               "Bb4", "C5", "D5", "F5", "G5", "A5", "F5",
                               "D5">>, 1),
         bass     |-> Repeat(<<"D2", "Bb1", "F1", "C2", "G1", "Bb1", "F1",
                               "A1">>, 2),
         velocity |-> 110,
         rhythm   |-> <<2, 2, 1, 1, 2, 2, 2, 2>>]) @@
    ("bridge" :>
        [chords   |-> <<"Bb", "F", "C", "Dm", "Bb", "F", "A7", "A7", "Gm",
                        "Bb", "C", "Dm">>,
         melody   |-> <<"F5", "G5", "A5", "Bb5", "A5", "G5", "F5", "F5",
                        "A5", "G5", "F5", "D5", "F5", "G5", "A5", "Bb5">>,
         bass     |-> <<"Bb1", "F1", "C2", "D2", "Bb1", "F1", "A1", "A1",
                        "G1", "Bb1", "C2", "D2">>,
         velocity |-> 95,
         rhythm   |-> <<1, 1, 1, 1, 1, 1, 2, 2>>]) @@
    ("final_chorus" :>
        [chords   |-> Repeat(<<"Dm", "Bb", "F", "C", "Gm", "Bb", "F",
                               "A7">>, 3),
         melody   |-> Repeat(<<"D5", "F5", "G5", "F5", "D5", "C5", "D5", "D5",
                               "Bb4", "C5", "D5", "F5", "G5", "A5", "F5",
                               "D5">>, 3),
         bass     |-> Repeat(<<"D2", "Bb1", "F1", "C2", "G1", "Bb1", "F1",
                               "A1">>, 3),
         velocity |-> 127,
         rhythm   |-> <<2, 2, 1, 1, 2, 2, 2, 2>>]) @@
    ("outro" :>
        [chords   |-> <<"Dm", "Bb", "F", "C", "Dm", "Dm">>,
         melody   |-> <<"D5", "F5", "G5", "F5", "D5", "D5">>,
         bass     |-> <<"D2", "Bb1", "F1", "C2", "D2", "D2">>,
         velocity |-> 60,
         rhythm   |-> <<4, 4, 4, 4, 8, 8>>])

create_section_falls_back_to_outro(section_name, bars) ==
    get(section_data, section_name, section_data["outro"])

create_section(section_name, bars) ==
    get(section_data, section_name, section_data["intro"])

----------------------------------------------------------------------------
(* generate_midi *)

lead_hook ==
    <<"A5", "F5", "D5", "F5", "G5", "A5", "Bb5", "A5",
      "F5", "D5", "C5", "D5", "F5", "G5", "F5", "D5">>

lead_rhythm == <<1, 1, 1, 1, 1, 1, 2, 2>>

chorus_start_time == beats_to_ticks(2 * 32)

\* One iteration of the for loop over self.structure, on the three tracks
\* given: the tracks after it.
render_section(tracks, section_name, bars, current) ==
    LET data == create_section(section_name, bars)
        offset == IF section_name = "intro" THEN current ELSE 0
    IN  [chord  |-> add_chord_progression(tracks.chord, data.chords, bars,
                                          data.velocity, offset),
         melody |-> add_melody(tracks.melody, data.melody, data.rhythm,
                               min(data.velocity + 10, 127), offset),
         bass   |-> add_bass_line(tracks.bass, data.bass,
                                  max(50, data.velocity - 15), offset)]

----------------------------------------------------------------------------
(* Observations of a track, used by the properties below. *)

\* The sum of the integers list[lo..hi], by halving the range.
RECURSIVE SumRange(_, _, _)
SumRange(list, lo, hi) ==
    IF lo > hi THEN 0
    ELSE IF lo = hi THEN list[lo]
    ELSE LET mid == (lo + hi) \div 2
         IN  SumRange(list, lo, mid) + SumRange(list, mid + 1, hi)

\* The sum of a sequence of integers.
SumSeq(list) == SumRange(list, 1, Len(list))

\* The sum of the delta-times of a track's messages.
SumTimes(track) == SumSeq([i \in 1..Len(track) |-> track[i].time])

\* The positions of a track's messages of the given type.
Positions(track, type) == {i \in 1..Len(track) : track[i].type = type}

Count(track, type) == Cardinality(Positions(track, type))

\* What a track holds after its first n messages.
After(track, n) == SubSeq(track, n + 1, Len(track))

\* The state before any call, on a converter just constructed.
NoCall == [op |-> "none", n |-> 0]

InitTracks ==
    /\ chord_track = <<>>
    /\ melody_track = <<>>
    /\ bass_track = <<>>
    /\ lead_track = <<>>
    /\ mid_tracks = <<>>
    /\ current_time = 0
    /\ starts = <<>>
    /\ sec = 1
    /\ call = NoCall

----------------------------------------------------------------------------
(* The pitch resolver, called on a token.                                  *)

NoteNames == DOMAIN notes \cup {"", "H", "Cb", "d", "rest", "D4"}

Octaves == {"", "0", "1", "2", "3", "4", "5", "6", "7", "8", "9"}

NoteTokens == {name \o octave : name \in NoteNames, octave \in Octaves}

InitResolve ==
    /\ InitTracks
    /\ structure = Structure
    /\ pc = "idle"

CallNoteNameToMidi ==
    \E t \in NoteTokens :
        /\ call' = [op |-> "note_name_to_midi", n |-> 1, note_name |-> t,
                    ret |-> note_name_to_midi(t)]
        /\ UNCHANGED <<chord_track, melody_track, bass_track, lead_track,
                       mid_tracks, structure, pc, sec, current_time, starts>>

NextResolve == CallNoteNameToMidi

SpecResolve == InitResolve /\ [][NextResolve]_vars

----------------------------------------------------------------------------
(* The three rendering operations, called by a caller on its own tracks.   *)

ChordNameLists ==
    { <<"Dm">>, <<"Zz">>, <<"A7", "Dm">>, <<"Zz", "C">>, <<"F", "Zz">>,
      <<"Dm", "Zz", "A7">> }

MelodyLists ==
    { <<>>, <<"D4">>, <<"rest">>, <<"rest", "Bb1">>, <<"F5", "rest">>,
      <<"D4", "rest", "H">> }

RhythmLists == { <<2>>, <<1, 4>> }

BassLists == { <<>>, <<"D2">>, <<"Bb1", "rest">> }

Offsets == {0, 480}

InitRender ==
    /\ InitTracks
    /\ structure = Structure
    /\ pc = "idle"

CallAddChordProgression ==
    /\ call.n < MaxOps
    /\ \E names \in ChordNameLists, bars \in 0..MaxBars, t0 \in Offsets :
        /\ chord_track' = add_chord_progression(chord_track, names, bars, 80,
                                                t0)
        /\ call' = [op |-> "add_chord_progression", n |-> call.n + 1,
                    track |-> "chord", before |-> Len(chord_track),
                    chords |-> names, bars |-> bars, time_offset |-> t0]
    /\ UNCHANGED <<melody_track, bass_track, lead_track, mid_tracks,
                   structure, pc, sec, current_time, starts>>

CallAddMelody ==
    /\ call.n < MaxOps
    /\ \E ms \in MelodyLists, rs \in RhythmLists, t0 \in Offsets :
        /\ melody_track' = add_melody(melody_track, ms, rs, 90, t0)
        /\ call' = [op |-> "add_melody", n |-> call.n + 1,
                    track |-> "melody", before |-> Len(melody_track),
                    melody_notes |-> ms, rhythm_pattern |-> rs,
                    time_offset |-> t0]
    /\ UNCHANGED <<chord_track, bass_track, lead_track, mid_tracks,
                   structure, pc, sec, current_time, starts>>

CallAddMelodyLead ==
    /\ call.n < MaxOps
    /\ \E ms \in MelodyLists, rs \in RhythmLists, t0 \in Offsets :
        /\ lead_track' = add_melody(lead_track, ms, rs, 100, t0)
        /\ call' = [op |-> "add_melody", n |-> call.n + 1,
                    track |-> "lead", before |-> Len(lead_track),
                    melody_notes |-> ms, rhythm_pattern |-> rs,
                    time_offset |-> t0]
    /\ UNCHANGED <<chord_track, melody_track, bass_track, mid_tracks,
                   structure, pc, sec, current_time, starts>>

CallAddBassLine ==
    /\ call.n < MaxOps
    /\ \E bs \in BassLists, t0 \in Offsets :
        /\ bass_track' = add_bass_line(bass_track, bs, 85, t0)
        /\ call' = [op |-> "add_bass_line", n |-> call.n + 1,
                    track |-> "bass", before |-> Len(bass_track),
                    bass_notes |-> bs, time_offset |-> t0]
    /\ UNCHANGED <<chord_track, melody_track, lead_track, mid_tracks,
                   structure, pc, sec, current_time, starts>>

NextRender ==
    \/ CallAddChordProgression
    \/ CallAddMelody
    \/ CallAddMelodyLead
    \/ CallAddBassLine

SpecRender == InitRender /\ [][NextRender]_vars

\* The track the last call wrote to, and what that call appended to it.
TrackOfCall ==
    CASE call.track = "chord" -> chord_track
      [] call.track = "melody" -> melody_track
      [] call.track = "lead" -> lead_track
      [] call.track = "bass" -> bass_track

Appended == After(TrackOfCall, call.before)

----------------------------------------------------------------------------
(* generate_midi, on a converter whose self.structure is the one __init__  *)
(* sets or one a caller has assigned.                                      *)

SectionNames == DOMAIN section_data \cup {"solo"}

BarChoices == {4, 8}

Structures ==
    {Structure}
    \cup { << <<a, x>> >> : a \in SectionNames, x \in BarChoices }
    \cup { << <<a, x>>, <<b, y>> >> :
              a \in SectionNames, x \in BarChoices,
              b \in {"intro", "solo", "outro"}, y \in BarChoices }

InitGen ==
    /\ InitTracks
    /\ structure \in Structures
    /\ pc = "create_tracks"

\* Lines 249-264: the four tracks, the tempo, the instruments.
CreateTracks ==
    /\ pc = "create_tracks"
    /\ chord_track' = Append(add_tempo_change(<<>>), program_change(0, 25))
    /\ melody_track' = <<program_change(1, 53)>>
    /\ bass_track' = <<program_change(2, 33)>>
    /\ lead_track' = <<program_change(3, 29)>>
    /\ current_time' = 0
    /\ sec' = 1
    /\ pc' = "sections"
    /\ UNCHANGED <<mid_tracks, structure, starts, call>>

\* Lines 267-294: one iteration of the loop over self.structure.
GenerateSection ==
    /\ pc = "sections"
    /\ sec <= Len(structure)
    /\ LET section_name == structure[sec][1]
           bars == structure[sec][2]
           tracks == render_section(
                         [chord |-> chord_track, melody |-> melody_track,
                          bass |-> bass_track],
                         section_name, bars, current_time)
       IN  /\ chord_track' = tracks.chord
           /\ melody_track' = tracks.melody
           /\ bass_track' = tracks.bass
           /\ call' = [op |-> "section", n |-> sec,
                       section_name |-> section_name, bars |-> bars,
                       current_time |-> current_time,
                       before |-> [chord |-> Len(chord_track),
                                   melody |-> Len(melody_track),
                                   bass |-> Len(bass_track)]]
    /\ starts' = Append(starts, SumTimes(chord_track))
    /\ current_time' = 0
    /\ sec' = sec + 1
    /\ UNCHANGED <<lead_track, mid_tracks, structure, pc>>

\* Lines 296-303: the lead guitar hook.
AddLeadHook ==
    /\ pc = "sections"
    /\ sec > Len(structure)
    /\ lead_track' = add_melody(lead_track, lead_hook, lead_rhythm, 100,
                                chorus_start_time)
    /\ pc' = "save"
    /\ UNCHANGED <<chord_track, melody_track, bass_track, mid_tracks,
                   structure, sec, current_time, starts, call>>

\* Lines 305-315: the tracks handed to the file, which is saved.
Save ==
    /\ pc = "save"
    /\ mid_tracks' = mid_tracks \o
                     <<chord_track, melody_track, bass_track, lead_track>>
    /\ pc' = "done"
    /\ UNCHANGED <<chord_track, melody_track, bass_track, lead_track,
                   structure, sec, current_time, starts, call>>

NextGen ==
    \/ CreateTracks
    \/ GenerateSection
    \/ AddLeadHook
    \/ Save

SpecGen == InitGen /\ [][NextGen]_vars

----------------------------------------------------------------------------
(* Properties of the pitch resolver (SpecResolve).                         *)

Resolved == call.op = "note_name_to_midi"

Clamp(x) == IF x < 0 THEN 0 ELSE IF x > 127 THEN 127 ELSE x

\* A known note name followed by an octave digit resolves to
\* basePitch + (octave - 4) * 12, clamped to [0,127].
OctaveRule ==
    \A name \in DOMAIN notes, octave \in 0..9 :
        call.note_name = name \o ToString(octave)
            => call.ret = Clamp(notes[name] + (octave - 4) * 12)

\* C1: note_name_to_midi returns, for every token (empty, "rest", a single
\* character, a known or unknown note name with or without a trailing octave
\* digit), an integer pitch code p with 0 <= p <= 127.
C1_PitchInRange == Resolved => call.ret \in 0..127

\* C1 witness: the token "B9", whose unclamped pitch is 71 + 60 = 131, has
\* been resolved to 127.
C1_Witness == Resolved /\ call.note_name = "B9" /\ call.ret = 127

\* C2 as stated: "D4" -> 62, "D5" -> 74, "Bb1" -> 46, "rest" -> 60,
\* "" -> 60, and the octave rule.
C2_AsStated ==
    Resolved =>
        /\ call.note_name = "D4" => call.ret = 62
        /\ call.note_name = "D5" => call.ret = 74
        /\ call.note_name = "Bb1" => call.ret = 46
        /\ call.note_name = "rest" => call.ret = 60
        /\ call.note_name = "" => call.ret = 60
        /\ OctaveRule

\* C2 amended: "D4" -> 62, "D5" -> 74, "Bb1" -> 70 - 36 = 34, "rest" -> 60,
\* "" -> 60, and a known note name followed by an octave digit resolves to
\* basePitch + (octave - 4) * 12 clamped to [0,127].
C2_PitchValues ==
    Resolved =>
        /\ call.note_name = "D4" => call.ret = 62
        /\ call.note_name = "D5" => call.ret = 74
        /\ call.note_name = "Bb1" => call.ret = 34
        /\ call.note_name = "rest" => call.ret = 60
        /\ call.note_name = "" => call.ret = 60
        /\ OctaveRule

\* C2 witness: the token "Bb1" has been resolved, to 34.
C2_Witness == Resolved /\ call.note_name = "Bb1" /\ call.ret = 34

----------------------------------------------------------------------------
(* Properties of the rendering operations (SpecRender).                    *)

\* The number of pitches of a chord name's pitch set, 0 for an unknown name.
PitchSetSize(name) == IF name \in DOMAIN chords THEN Len(chords[name]) ELSE 0

\* The chord name of the k-th bar (k from 1): chords[(k - 1) mod L].
NameOfBar(names, k) == names[((k - 1) % Len(names)) + 1]

\* C3: add_chord_progression with a non-empty chord-name list of length L
\* and bars >= 0 processes exactly bars chord names, the k-th being
\* chords[k mod L]; each known chord appends one note_on per pitch of its
\* set, then one note_off per pitch, and each unknown name appends nothing,
\* so 2 * (sum of the pitch-set sizes of the known chords) messages are
\* appended.
C3_ChordMessages ==
    call.op = "add_chord_progression" =>
        LET sizes == [k \in 1..call.bars |->
                         PitchSetSize(NameOfBar(call.chords, k))]
        IN  /\ Len(Appended) = 2 * SumSeq(sizes)
            /\ \A k \in 1..call.bars :
                 LET n == sizes[k]
                     o == 2 * SumRange(sizes, 1, k - 1)
                 IN  \A j \in 1..n :
                       /\ Appended[o + j].type = "note_on"
                       /\ Appended[o + j].note
                              = chords[NameOfBar(call.chords, k)][j]
                       /\ Appended[o + n + j].type = "note_off"
                       /\ Appended[o + n + j].note
                              = chords[NameOfBar(call.chords, k)][j]

\* C3 witness: the list <<"Zz", "C">> rendered over 3 bars (Zz, C, Zz) has
\* appended the 6 messages of its one known chord.
C3_Witness ==
    /\ call.op = "add_chord_progression"
    /\ call.chords = <<"Zz", "C">>
    /\ call.bars = 3
    /\ Len(Appended) = 6

\* A track whose note_on and note_off messages alternate: every note_on is
\* immediately followed by a note_off of the same pitch, and every note_off
\* immediately follows a note_on.
Alternates(track) ==
    \A i \in 1..Len(track) :
        /\ track[i].type = "note_on" =>
              /\ i < Len(track)
              /\ track[i + 1].type = "note_off"
              /\ track[i + 1].note = track[i].note
        /\ track[i].type = "note_off" =>
              /\ i > 1
              /\ track[i - 1].type = "note_on"

Balanced(track) == Count(track, "note_on") = Count(track, "note_off")

\* C4: after any sequence of rendering operations every track holds as many
\* note_on as note_off messages, and on the melody, bass and lead tracks
\* every note_on is immediately followed by a note_off of the same pitch and
\* no two note_on messages are consecutive.
C4_BalancedAlternating ==
    /\ Balanced(chord_track)
    /\ Balanced(melody_track)
    /\ Balanced(bass_track)
    /\ Balanced(lead_track)
    /\ Alternates(melody_track)
    /\ Alternates(bass_track)
    /\ Alternates(lead_track)

\* C4 witness: two calls have left two notes on the melody track and a
\* four-pitch chord on the chord track.
C4_Witness == Len(melody_track) >= 4 /\ Len(chord_track) >= 8

\* The ticks of the rhythm durations paired with the first n tokens of a
\* melody, the rhythm pattern cycled: 480 ticks per beat, 240 per half beat.
PairedTicks(rhythm_pattern, n) ==
    (SumSeq([i \in 1..n |-> rhythm_pattern[((i - 1) % Len(rhythm_pattern)) + 1]])
        * 480) \div 2

\* C6 as stated: each rendering operation appends messages whose delta-times
\* sum to the elapsed time it was asked to render: the offset plus 4 beats
\* for each of the bars chords, the offset plus the rhythm duration of every
\* melody token (rests included), the offset plus 4 beats per bass token.
C6_AsStated ==
    /\ call.op = "add_chord_progression" =>
          SumTimes(Appended) = call.time_offset + call.bars * 4 * 480
    /\ call.op = "add_melody" =>
          SumTimes(Appended)
              = call.time_offset
                + PairedTicks(call.rhythm_pattern, Len(call.melody_notes))
    /\ call.op = "add_bass_line" =>
          SumTimes(Appended)
              = call.time_offset + Len(call.bass_notes) * 4 * 480

----------------------------------------------------------------------------
(* Properties of generate_midi (SpecGen).                                  *)

Rendered == call.op = "section"

MelodyAppended == After(melody_track, call.before.melody)

\* C5 as stated: the delta-times of the melody messages appended for a
\* section of the table sum to the sum of the section's rhythm sequence
\* times ticksPerBeat.
C5_AsStated ==
    Rendered /\ call.section_name \in DOMAIN section_data =>
        SumTimes(MelodyAppended)
            = (SumSeq(section_data[call.section_name].rhythm) * 480) \div 2

\* C5 amended: the delta-times of the melody messages appended for a section
\* of the table sum to ticksPerBeat times the sum of the rhythm durations
\* paired with the section's melody tokens, the rhythm sequence cycled over
\* the melody; for the outro (6 tokens, rhythm [2,2,2,2,4,4]) that is
\* (2+2+2+2+4+4) * ticksPerBeat.
C5_MelodyTicks ==
    Rendered /\ call.section_name \in DOMAIN section_data =>
        /\ SumTimes(MelodyAppended)
              = PairedTicks(section_data[call.section_name].rhythm,
                            Len(section_data[call.section_name].melody))
        /\ call.section_name = "outro" =>
              SumTimes(MelodyAppended) = (2 + 2 + 2 + 2 + 4 + 4) * 480

\* C5 witness: the outro has been rendered, its melody lasting 7680 ticks.
C5_Witness ==
    /\ Rendered
    /\ call.section_name = "outro"
    /\ SumTimes(MelodyAppended) = 7680

\* C7: for a section name that is not in the section table, create_section
\* returns the intro's data, and the messages appended to the chord, melody
\* and bass tracks are those appended for "intro" with the same bar count.
C7_UnknownSectionIsIntro ==
    Rendered /\ call.section_name \notin DOMAIN section_data =>
        LET intro == render_section(
                         [chord |-> <<>>, melody |-> <<>>, bass |-> <<>>],
                         "intro", call.bars, call.current_time)
        IN  /\ create_section(call.section_name, call.bars)
                  = section_data["intro"]
            /\ After(chord_track, call.before.chord) = intro.chord
            /\ After(melody_track, call.before.melody) = intro.melody
            /\ After(bass_track, call.before.bass) = intro.bass

\* C7 witness: the unknown section "solo" has been rendered and has appended
\* messages to the chord track.
C7_Witness ==
    /\ Rendered
    /\ call.section_name = "solo"
    /\ Len(chord_track) > call.before.chord

\* One program_change on the track, with delta-time 0, on the given channel,
\* before every note_on and note_off of the track.
OneProgramChange(track, channel) ==
    /\ Count(track, "program_change") = 1
    /\ \A p \in Positions(track, "program_change") :
          /\ track[p].time = 0
          /\ track[p].channel = channel
          /\ \A i \in Positions(track, "note_on")
                      \cup Positions(track, "note_off") : p < i

\* C8: each of the four tracks handed to the file holds exactly one
\* program_change, with delta-time 0, before every note_on and note_off, on
\* its own channel (0 chords, 1 melody, 2 bass, 3 lead); exactly one
\* set_tempo exists overall and it is the first message of the chord track.
C8_ProgramAndTempo ==
    pc = "done" =>
        /\ Len(mid_tracks) = 4
        /\ \A i \in 1..4 : OneProgramChange(mid_tracks[i], i - 1)
        /\ SumSeq([i \in 1..4 |-> Count(mid_tracks[i], "set_tempo")]) = 1
        /\ mid_tracks[1][1].type = "set_tempo"

\* C8 witness: generate_midi has finished on the structure __init__ sets.
C8_Witness ==
    /\ pc = "done"
    /\ structure = Structure
    /\ Len(mid_tracks[4]) > 1

\* The absolute time of a track's first note_on.
FirstNoteOnTime(track) ==
    LET first == CHOOSE p \in Positions(track, "note_on") :
                     \A q \in Positions(track, "note_on") : p <= q
    IN  SumTimes(SubSeq(track, 1, first))

\* C9 as stated: on the structure __init__ sets, the first note_on of the
\* lead track sounds at the absolute time at which chorus1 begins, the
\* elapsed time of the chord track after intro, verse1 and pre_chorus1.
C9_AsStated ==
    pc = "done" /\ structure = Structure =>
        FirstNoteOnTime(lead_track) = starts[4]

\* The bar counts of the sections rendered so far.
BarsRendered == SumSeq([k \in 1..(sec - 1) |-> structure[k][2]])

\* C10 as stated: on the structure __init__ sets, after each section the
\* delta-times of the bass track and of the chord track both sum to
\* 4 beats * ticksPerBeat * (the bar counts of the sections rendered).
C10_AsStated ==
    pc = "sections" /\ structure = Structure =>
        /\ SumTimes(chord_track) = 4 * 480 * BarsRendered
        /\ SumTimes(bass_track) = SumTimes(chord_track)

=============================================================================
